---- MODULE Spec2Model ----
(***************************************************************************)
(* Model of wikiupdate (src/wikiupdate/wikiupdate/__main__.py): the        *)
(* WikiUpdater.run() orchestration, import_dump and the checkpoint file,   *)
(* over repeated invocations of main() against one target directory.      *)
(*                                                                         *)
(* A dump date is a fixed-width date string; dates are modelled as the     *)
(* integers 1..MaxVersion, whose order is the lexicographic order of the   *)
(* strings.  None (no date) is 0.                                          *)
(*                                                                         *)
(* The process can stop at any step in two ways: a KeyboardInterrupt,      *)
(* which no "except Exception" clause catches and which main() turns into  *)
(* exit status 130, and a kill, after which no code runs.                  *)
(*                                                                         *)
(* Writes of the checkpoint file are taken to succeed (save_progress       *)
(* swallows a failing write and only warns).                               *)
(***************************************************************************)
EXTENDS Integers, Sequences, FiniteSets, TLC

\* ---------------------------------------------------------------- bounds
MaxVersion == 2
MaxRuns == 2
MaxLines == 1
MaxLogs == 7

\* lines of the ingestor that the read loop followed on its own reads
MaxProgressLines == 4

\* greatest page count that a progress line reports
MaxPages == 2

\* cleanup_old_dumps keeps the 5 most recent import logs
KeepLogs == 5

Versions == 1..MaxVersion
None == 0

\* the per-version artifacts: archive, index, decompressed index, manifest
Kinds == {"xml", "index", "indextxt", "md5"}
\* the same and the decompressed archive, which cleanup_old_dumps also removes
AllKinds == Kinds \cup {"xmlraw"}

\* the processes of the two-invocation specification
Procs == {1, 2}

\* a file that does not exist
Absent == "absent"

NoProgress == [status |-> "none", dump_date |-> None]

VARIABLES
    pc,                    \* position of the running process, or how it ended
    runs,                  \* number of invocations of main() so far
    force_download,        \* --force-download
    rebuild_indexes_only,  \* --rebuild-indexes-only
    progress_file,         \* the checkpoint on disk (.wikiupdate_progress.json)
    files,                 \* artifacts on disk: <<date, kind>>
    partial,               \* the artifacts on disk that are half-written
    logs,                  \* import_<date>.log files, most recently
                           \* modified first
    progress,              \* run(): the dict load_progress() returned
    current_date,          \* run(): local version
    latest_date,           \* run(): latest remote version
    latest_date_to_import, \* run()
    skip_download,         \* run()
    docker_running,        \* import_dump: result of check_docker_running
    import_returncode,     \* import_dump: ingestor exit code (-1: not waited)
    bunzip2_returncode,    \* import_dump: decompressor exit code
    import_result,         \* value import_dump returns
    lines,                 \* due progress lines read so far
    exitCode,              \* exit status of main() (-1: none)
    \* ---- observation of the current run
    called,                \* operations invoked in this run
    written,               \* statuses written to the checkpoint in this run
    scaleUpCalls,          \* invocations of scale_up_resources in this run
    scaleDownCalls,        \* invocations of scale_down_resources in this run
    gate,                  \* confirmation gate offered and the answer
    checksum_mismatch,     \* md5sum found a listed file whose hash disagrees
    download_failed,       \* kinds whose download_file returned False
    scale_down_ok,         \* outcome of scale_down_resources
    rebuild_ok,            \* outcome of rebuild_indexes
    stoppedAt,             \* pc at which an interrupt arrived; "main" when
                           \* main() ended before run()
    start,                 \* disk state when the run started
    prev,                  \* date of the import the previous invocation was
                           \* reading the output of when it was stopped
    procs,                 \* two concurrent invocations: position and date
    latest_dump,           \* a call of get_latest_dump_date
    rebuild_run,           \* a call of rebuild_indexes
    config,                \* docker-compose.yml, 99-tuning.cnf and their
                           \* .backup siblings
    scale,                 \* a call of scale_up_resources or
                           \* scale_down_resources
    loop                   \* the loop of import_dump over the ingestor's
                           \* output

vars == <<pc, runs, force_download, rebuild_indexes_only, progress_file, files,
          progress, current_date, latest_date, latest_date_to_import,
          skip_download, docker_running, import_returncode, bunzip2_returncode,
          import_result, lines, exitCode, called, written, scaleUpCalls,
          scaleDownCalls, gate, checksum_mismatch, stoppedAt, start, prev,
          partial, logs, download_failed, scale_down_ok, rebuild_ok, procs,
          latest_dump, rebuild_run, config, scale, loop>>

artifacts == <<files, partial, logs>>
disk == <<progress_file, files, partial, logs>>
outcomes == <<download_failed, scale_down_ok, rebuild_ok>>
locals == <<progress, current_date, latest_date, latest_date_to_import,
            skip_download, docker_running, import_returncode,
            bunzip2_returncode, import_result, lines>>
runLocals == <<progress, current_date, latest_date, latest_date_to_import,
               skip_download>>
importLocals == <<docker_running, import_returncode, bunzip2_returncode,
                  import_result, lines>>
flags == <<force_download, rebuild_indexes_only>>
obs == <<called, written, scaleUpCalls, scaleDownCalls, gate,
         checksum_mismatch>>
meta == <<runs, stoppedAt, start, prev>>
\* the operations followed one at a time, each in a specification of its own
calls == <<latest_dump, rebuild_run, config, scale, loop>>
side == <<procs, calls>>

Max(S) == CHOOSE x \in S : \A y \in S : y <= x

ArtifactsOf(S) == {<<v, k>> : v \in S, k \in Kinds}

\* positions inside import_dump after scale_up_resources has run
AfterScaleUp == {"save_importing", "spawn", "reading", "wait", "finish",
                 "except", "scale_down"}
\* positions inside import_dump
InImport == {"scale_up"} \cup AfterScaleUp \cup {"import_ret"}
\* positions of a live process
Transferring == {"transfer_xml", "transfer_index", "transfer_md5"}
Running == {"run_start", "discover", "decide", "resume_gate", "download_xml",
            "download_index", "download_md5", "verify", "decompress",
            "confirm", "import_check", "rebuild", "cleanup", "clear"}
           \cup InImport \cup Transferring
Ended == {"exited"}

\* ------------------------------------------------------- pure functions

\* get_current_dump_date: the greatest date among the local archive files
GetCurrentDumpDate(fs) ==
    LET dates == {f[1] : f \in {g \in fs : g[2] \in {"xml", "xmlraw"}}}
    IN  IF dates = {} THEN None ELSE Max(dates)

\* get_latest_dump_date: the listing sorted descending, the first date whose
\* md5sums probe answers 200; None when the listing fails or none answers
GetLatestDumpDate(listingOk, dates, marked) ==
    IF ~listingOk THEN None
    ELSE LET complete == {d \in dates : d \in marked}
         IN  IF complete = {} THEN None ELSE Max(complete)

\* download_file: <<return value, destination exists afterwards>>
DownloadFile(exists, force, transferOk) ==
    IF exists /\ ~force THEN <<TRUE, TRUE>>
    ELSE IF transferOk THEN <<TRUE, TRUE>>
    ELSE <<FALSE, FALSE>>

\* VerifyChecksums with the result of md5sum -c not looked at
VerifyChecksums_ignoresFailed(md5Exists, lists, bad, err) == TRUE

\* verify_checksums: lists = the downloaded files the manifest has a line
\* for, bad = the files md5sum -c reports FAILED, err = an exception
VerifyChecksums(md5Exists, lists, bad, err) ==
    IF ~md5Exists THEN TRUE
    ELSE IF err THEN TRUE
    ELSE IF lists = {} THEN TRUE
    ELSE lists \cap bad = {}

\* check_docker_running
CheckDockerRunning(psOk, hasApp) == psOk /\ hasApp

\* UpdateDecision that updates when the checkpoint is not for the latest date
UpdateDecision_noCheckpointUpdates(cur, latest, force, p) ==
    IF cur = latest /\ ~force
    THEN IF p.status # "none" /\ p.dump_date = latest
         THEN IF p.status = "completed" THEN "complete"
              ELSE IF p.status \in {"importing", "failed", "error"}
                   THEN "resume"
                   ELSE "uptodate"
         ELSE "update"
    ELSE "update"

\* UpdateDecision with "completed" handled like the unfinished statuses
UpdateDecision_completedResumes(cur, latest, force, p) ==
    IF cur = latest /\ ~force
    THEN IF p.status # "none" /\ p.dump_date = latest
         THEN "resume"
         ELSE "uptodate"
    ELSE "update"

\* UpdateDecision with "importing" missing from the statuses that resume
UpdateDecision_importingNotResumed(cur, latest, force, p) ==
    IF cur = latest /\ ~force
    THEN IF p.status # "none" /\ p.dump_date = latest
         THEN IF p.status = "completed" THEN "complete"
              ELSE IF p.status \in {"failed", "error"}
                   THEN "resume"
                   ELSE "uptodate"
         ELSE "uptodate"
    ELSE "update"

\* run(): the branch of lines 844-873
UpdateDecision(cur, latest, force, p) ==
    IF cur = latest /\ ~force
    THEN IF p.status # "none" /\ p.dump_date = latest
         THEN IF p.status = "completed" THEN "complete"
              ELSE IF p.status \in {"importing", "failed", "error"}
                   THEN "resume"
                   ELSE "uptodate"
         ELSE "uptodate"
    ELSE "update"

\* import_dump: what the exit codes of the two processes lead to
PipelineOutcome(import_rc, bunzip2_rc) ==
    IF bunzip2_rc # 0 THEN "decompress_failed"
    ELSE IF import_rc = 0 THEN "completed"
    ELSE "failed"

\* rebuild_indexes: only the second and third steps are required
Required == <<FALSE, TRUE, TRUE>>
RebuildIndexes(results) ==
    \A i \in 1..Len(Required) : Required[i] => results[i]

\* cleanup_old_dumps: the kinds of file its five glob patterns match
CleanupPatterns == {"xmlraw", "xml", "indextxt", "index", "md5"}

\* CleanupOldDumps without the pattern of the decompressed index
CleanupOldDumps_keepsIndexText(fs, keep_date) ==
    {f \in fs : ~(f[2] \in CleanupPatterns \ {"indextxt"} /\ f[1] # keep_date)}

\* cleanup_old_dumps: the artifacts that remain
CleanupOldDumps(fs, keep_date) ==
    {f \in fs : ~(f[2] \in CleanupPatterns /\ f[1] # keep_date)}

\* cleanup_old_dumps: the logs that remain, log_files[5:] being removed
CleanupLogs(ls) ==
    SubSeq(ls, 1, IF Len(ls) < KeepLogs THEN Len(ls) ELSE KeepLogs)

\* open(log_file, 'w'): the log of a date becomes the most recent one
TouchLog(ls, date) ==
    <<date>> \o SelectSeq(ls, LAMBDA n : n # date)

\* save_progress, and its trace in the run's observation
SaveProgress(status, date) ==
    /\ progress_file' = [status |-> status, dump_date |-> date]
    /\ written' = Append(written, status)

\* the process ends with an exit status
Exit(code) ==
    /\ pc' = "exited"
    /\ exitCode' = code

\* the four configuration files named in lines 278-281: the two managed
\* files as the operator installed them, no .backup beside them
Installed(compose, tuning) ==
    [compose |-> compose, tuning |-> tuning,
     compose_backup |-> Absent, tuning_backup |-> Absent]

\* neither scale_up_resources nor scale_down_resources has been called in
\* this process; c is what the four files hold
NoScaling(c) ==
    [pc |-> "idle", op |-> "none", at_call |-> c, orig |-> c,
     up_ret |-> "none", down_ret |-> "none", copied |-> {},
     rewritten |-> {}, branch |-> "none"]

\* no operation is being followed on its own
NoCalls ==
    /\ latest_dump = [pc |-> "idle"]
    /\ rebuild_run = [pc |-> "idle"]
    /\ config = Installed("normal", "normal")
    /\ scale = NoScaling(config)
    /\ loop = [pc |-> "idle"]

\* ------------------------------------------------------------ initially
\* No process runs.  The target directory is new: it holds no artifact and
\* no checkpoint.
NoRun ==
    /\ pc = "idle"
    /\ runs = 0
    /\ force_download = FALSE
    /\ rebuild_indexes_only = FALSE
    /\ progress_file = NoProgress
    /\ files = {}
    /\ partial = {}
    /\ logs = <<>>
    /\ progress = NoProgress
    /\ current_date = None
    /\ latest_date = None
    /\ latest_date_to_import = None
    /\ skip_download = FALSE
    /\ docker_running = FALSE
    /\ import_returncode = -1
    /\ bunzip2_returncode = -1
    /\ import_result = FALSE
    /\ lines = 0
    /\ exitCode = -1
    /\ called = {}
    /\ written = <<>>
    /\ scaleUpCalls = 0
    /\ scaleDownCalls = 0
    /\ gate = "none"
    /\ checksum_mismatch = FALSE
    /\ stoppedAt = "none"
    /\ download_failed = {}
    /\ scale_down_ok = "none"
    /\ rebuild_ok = "none"
    /\ start = [progress_file |-> NoProgress, files |-> {}, logs |-> <<>>]
    /\ prev = None
    /\ procs = [p \in Procs |->
                   [pc |-> "idle", date |-> None, result |-> FALSE]]

Init ==
    /\ NoRun
    /\ NoCalls

\* ----------------------------------------------------------- main, run
\* main(): parse the command line, check for sudo, construct the
\* WikiUpdater, call run() (lines 928-983).  parse_args() leaves with 2 on a
\* command line it rejects and with 0 after --help; without passwordless
\* sudo main() returns 1.
Main ==
    /\ pc \in {"idle"} \cup Ended
    /\ runs < MaxRuns
    /\ runs' = runs + 1
    /\ \E args \in {"ok", "usage", "help"}, sudoOk \in BOOLEAN,
          f \in BOOLEAN, r \in BOOLEAN :
          IF args = "ok" /\ sudoOk
          THEN /\ force_download' = f
               /\ rebuild_indexes_only' = r
               /\ stoppedAt' = "none"
               /\ pc' = "run_start"
               /\ exitCode' = -1
          ELSE /\ force_download' = FALSE
               /\ rebuild_indexes_only' = FALSE
               /\ stoppedAt' = "main"
               /\ Exit(IF args = "usage" THEN 2
                       ELSE IF args = "help" THEN 0 ELSE 1)
    /\ prev' = IF stoppedAt = "reading" THEN latest_date_to_import ELSE None
    /\ start' = [progress_file |-> progress_file, files |-> files,
                 logs |-> logs]
    /\ progress' = NoProgress
    /\ current_date' = None
    /\ latest_date' = None
    /\ latest_date_to_import' = None
    /\ skip_download' = FALSE
    /\ docker_running' = FALSE
    /\ import_returncode' = -1
    /\ bunzip2_returncode' = -1
    /\ import_result' = FALSE
    /\ lines' = 0
    /\ called' = {}
    /\ written' = <<>>
    /\ scaleUpCalls' = 0
    /\ scaleDownCalls' = 0
    /\ gate' = "none"
    /\ checksum_mismatch' = FALSE
    /\ download_failed' = {}
    /\ scale_down_ok' = "none"
    /\ rebuild_ok' = "none"
    /\ UNCHANGED <<disk, side>>

\* RebuildOnly that returns 0 whatever rebuild_indexes returned
RebuildOnly_returnsZero ==
    /\ pc = "run_start"
    /\ rebuild_indexes_only
    /\ \E psOk \in BOOLEAN, hasApp \in BOOLEAN, results \in [1..3 -> BOOLEAN] :
          /\ docker_running' = CheckDockerRunning(psOk, hasApp)
          /\ IF ~docker_running'
             THEN /\ Exit(1)
                  /\ UNCHANGED <<called, rebuild_ok>>
             ELSE /\ called' = called \cup {"rebuild_indexes"}
                  /\ rebuild_ok' =
                        IF RebuildIndexes(results) THEN "ok" ELSE "failed"
                  /\ Exit(0)
    /\ UNCHANGED <<disk, runLocals, import_returncode, bunzip2_returncode,
                   import_result, lines, flags, meta, side, written,
                   scaleUpCalls, scaleDownCalls, gate, checksum_mismatch,
                   download_failed, scale_down_ok>>

\* run(), rebuild-only mode (lines 779-792)
RebuildOnly ==
    /\ pc = "run_start"
    /\ rebuild_indexes_only
    /\ \E psOk \in BOOLEAN, hasApp \in BOOLEAN, results \in [1..3 -> BOOLEAN] :
          /\ docker_running' = CheckDockerRunning(psOk, hasApp)
          /\ IF ~docker_running'
             THEN /\ Exit(1)
                  /\ UNCHANGED <<called, rebuild_ok>>
             ELSE /\ called' = called \cup {"rebuild_indexes"}
                  /\ rebuild_ok' =
                        IF RebuildIndexes(results) THEN "ok" ELSE "failed"
                  /\ Exit(IF RebuildIndexes(results) THEN 0 ELSE 1)
    /\ UNCHANGED <<disk, runLocals, import_returncode, bunzip2_returncode,
                   import_result, lines, flags, meta, side, written,
                   scaleUpCalls, scaleDownCalls, gate, checksum_mismatch,
                   download_failed, scale_down_ok>>

\* run(): progress = self.load_progress() (line 794)
LoadProgress ==
    /\ pc = "run_start"
    /\ ~rebuild_indexes_only
    /\ progress' = progress_file
    /\ pc' = "discover"
    /\ UNCHANGED <<disk, flags, meta, outcomes, side, obs, exitCode,
                   current_date, latest_date, latest_date_to_import,
                   skip_download, docker_running, import_returncode,
                   bunzip2_returncode, import_result, lines>>

\* Discover that goes on to the decision whatever the remote index gave
Discover_noCheck ==
    /\ pc = "discover"
    /\ current_date' = GetCurrentDumpDate(files)
    /\ \E listingOk \in BOOLEAN, dates \in SUBSET Versions,
          marked \in SUBSET Versions :
          latest_date' = GetLatestDumpDate(listingOk, dates, marked)
    /\ pc' = "decide"
    /\ UNCHANGED <<disk, flags, meta, outcomes, side, obs, progress,
                   latest_date_to_import, skip_download, docker_running,
                   import_returncode, bunzip2_returncode, import_result, lines,
                   exitCode>>

\* run(): current and latest dump dates (lines 834-841)
Discover ==
    /\ pc = "discover"
    /\ current_date' = GetCurrentDumpDate(files)
    /\ \E listingOk \in BOOLEAN, dates \in SUBSET Versions,
          marked \in SUBSET Versions :
          latest_date' = GetLatestDumpDate(listingOk, dates, marked)
    /\ IF latest_date' = None
       THEN Exit(1)
       ELSE /\ pc' = "decide"
            /\ UNCHANGED exitCode
    /\ UNCHANGED <<disk, flags, meta, outcomes, side, obs, progress,
                   latest_date_to_import, skip_download, docker_running,
                   import_returncode, bunzip2_returncode, import_result,
                   lines>>

\* run(): is an update needed (lines 843-873)
Decide ==
    /\ pc = "decide"
    /\ LET d == UpdateDecision(current_date, latest_date, force_download,
                               progress)
       IN  CASE d \in {"complete", "uptodate"} ->
                   /\ Exit(0)
                   /\ UNCHANGED <<gate, latest_date_to_import>>
             [] d = "resume" ->
                   /\ pc' = "resume_gate"
                   /\ gate' = "resume_offered"
                   /\ UNCHANGED <<exitCode, latest_date_to_import>>
             [] d = "update" ->
                   /\ pc' = "download_xml"
                   /\ latest_date_to_import' = latest_date
                   /\ UNCHANGED <<exitCode, gate>>
    /\ UNCHANGED <<disk, flags, meta, outcomes, side, called, written,
                   scaleUpCalls, scaleDownCalls, checksum_mismatch, progress,
                   current_date, latest_date, skip_download, docker_running,
                   import_returncode, bunzip2_returncode, import_result,
                   lines>>

\* ResumeGate with skip_download left unset: the accepted resume downloads
ResumeGate_noSkip ==
    /\ pc = "resume_gate"
    /\ \E answer \in BOOLEAN :
          IF answer
          THEN /\ gate' = "resume_yes"
               /\ latest_date_to_import' = latest_date
               /\ pc' = "download_xml"
               /\ UNCHANGED exitCode
          ELSE /\ gate' = "resume_no"
               /\ Exit(0)
               /\ UNCHANGED latest_date_to_import
    /\ UNCHANGED <<disk, flags, meta, outcomes, side, called, written,
                   scaleUpCalls, scaleDownCalls, checksum_mismatch, progress,
                   current_date, latest_date, skip_download, docker_running,
                   import_returncode, bunzip2_returncode, import_result,
                   lines>>

\* run(): Confirm.ask of the resume path (lines 856-862)
ResumeGate ==
    /\ pc = "resume_gate"
    /\ \E answer \in BOOLEAN :
          IF answer
          THEN /\ gate' = "resume_yes"
               /\ latest_date_to_import' = latest_date
               /\ skip_download' = TRUE
               /\ pc' = "import_check"
               /\ UNCHANGED exitCode
          ELSE /\ gate' = "resume_no"
               /\ Exit(0)
               /\ UNCHANGED <<latest_date_to_import, skip_download>>
    /\ UNCHANGED <<disk, flags, meta, outcomes, side, called, written,
                   scaleUpCalls, scaleDownCalls, checksum_mismatch, progress,
                   current_date, latest_date, docker_running,
                   import_returncode, bunzip2_returncode, import_result,
                   lines>>

\* run() -> download_dump -> download_file for one of the three files
\* (lines 161-182, 118-145): the call returns at once when the file is
\* skipped or when a request fails before the destination is opened;
\* otherwise the destination is opened and the transfer starts
DownloadBegin(here, kind, critical, mid, next) ==
    /\ pc = here
    /\ called' = called \cup {"download_dump"}
    /\ \E opened \in BOOLEAN :
          LET f == <<latest_date, kind>>
              skip == f \in files /\ ~force_download
              r == DownloadFile(f \in files, force_download, FALSE)
          IN  IF skip \/ ~opened
              THEN /\ files' = IF r[2] THEN files \cup {f} ELSE files \ {f}
                   /\ partial' = IF r[2] THEN partial ELSE partial \ {f}
                   /\ download_failed' = IF r[1] THEN download_failed
                                         ELSE download_failed \cup {kind}
                   /\ IF r[1] \/ ~critical
                      THEN /\ pc' = next
                           /\ UNCHANGED exitCode
                      ELSE Exit(1)
              ELSE /\ files' = files \cup {f}
                   /\ partial' = partial \cup {f}
                   /\ pc' = mid
                   /\ UNCHANGED <<exitCode, download_failed>>
    /\ UNCHANGED <<progress_file, logs, flags, meta, side, locals, written,
                   scaleUpCalls, scaleDownCalls, gate, checksum_mismatch,
                   scale_down_ok, rebuild_ok>>

\* download_file, the chunks being written (lines 146-159): the transfer
\* completes, or raises and the partial destination is deleted
DownloadEnd(mid, kind, critical, next) ==
    /\ pc = mid
    /\ \E transferOk \in BOOLEAN :
          LET f == <<latest_date, kind>>
              r == DownloadFile(FALSE, force_download, transferOk)
          IN  /\ files' = IF r[2] THEN files \cup {f} ELSE files \ {f}
              /\ partial' = partial \ {f}
              /\ download_failed' = IF r[1] THEN download_failed
                                    ELSE download_failed \cup {kind}
              /\ IF r[1] \/ ~critical
                 THEN /\ pc' = next
                      /\ UNCHANGED exitCode
                 ELSE Exit(1)
    /\ UNCHANGED <<progress_file, logs, flags, meta, side, locals, called,
                   written, scaleUpCalls, scaleDownCalls, gate,
                   checksum_mismatch, scale_down_ok, rebuild_ok>>

DownloadXml ==
    DownloadBegin("download_xml", "xml", TRUE, "transfer_xml", "download_index")
TransferXml == DownloadEnd("transfer_xml", "xml", TRUE, "download_index")
\* DownloadIndex whose failure is not critical
DownloadIndex_nonCritical ==
    DownloadBegin("download_index", "index", FALSE, "transfer_index",
                  "download_md5")
DownloadIndex ==
    DownloadBegin("download_index", "index", TRUE, "transfer_index",
                  "download_md5")
TransferIndex == DownloadEnd("transfer_index", "index", TRUE, "download_md5")
DownloadMd5 ==
    DownloadBegin("download_md5", "md5", FALSE, "transfer_md5", "verify")
TransferMd5 == DownloadEnd("transfer_md5", "md5", FALSE, "verify")

\* run() -> verify_checksums (lines 883-884, 184-233)
Verify ==
    /\ pc = "verify"
    /\ called' = called \cup {"verify_checksums"}
    /\ \E lists \in SUBSET {"xml", "index"}, bad \in SUBSET {"xml", "index"},
          err \in BOOLEAN :
          LET md5Exists == <<latest_date, "md5">> \in files
          IN  \* the hash of a half-written file disagrees
              /\ \A k \in {"xml", "index"} :
                    <<latest_date, k>> \in partial => k \in bad
              /\ checksum_mismatch' =
                     (md5Exists /\ ~err /\ lists \cap bad # {})
              /\ IF VerifyChecksums(md5Exists, lists, bad, err)
                 THEN /\ pc' = "decompress"
                      /\ UNCHANGED exitCode
                 ELSE Exit(1)
    /\ UNCHANGED <<disk, flags, meta, outcomes, side, locals, written,
                   scaleUpCalls, scaleDownCalls, gate>>

\* run() -> decompress_index (lines 887-888, 235-257), then the prompt of
\* line 897 is shown
DecompressIndex ==
    /\ pc = "decompress"
    /\ called' = called \cup {"decompress_index"}
    /\ \E bunzipOk \in BOOLEAN :
          LET txt == <<latest_date, "indextxt">>
          IN  IF txt \in files \/ bunzipOk
              THEN /\ files' = files \cup {txt}
                   /\ pc' = "confirm"
                   /\ gate' = "import_offered"
                   /\ UNCHANGED exitCode
              ELSE /\ Exit(1)
                   /\ UNCHANGED <<files, gate>>
    /\ UNCHANGED <<progress_file, partial, logs, flags, meta, outcomes, side,
                   locals, written, scaleUpCalls, scaleDownCalls,
                   checksum_mismatch>>

\* run(): Confirm.ask before the import (lines 897-899)
ConfirmGate ==
    /\ pc = "confirm"
    /\ \E answer \in BOOLEAN :
          IF answer
          THEN /\ gate' = "import_yes"
               /\ pc' = "import_check"
               /\ UNCHANGED exitCode
          ELSE /\ gate' = "import_no"
               /\ Exit(0)
    /\ UNCHANGED <<disk, flags, meta, outcomes, side, locals, called, written,
                   scaleUpCalls, scaleDownCalls, checksum_mismatch>>

\* ---------------------------------------------------------- import_dump
\* CheckDockerStep without the early return
CheckDockerStep_noReturn ==
    /\ pc = "import_check"
    /\ called' = called \cup {"import_dump"}
    /\ \E psOk \in BOOLEAN, hasApp \in BOOLEAN :
          docker_running' = CheckDockerRunning(psOk, hasApp)
    /\ pc' = "scale_up"
    /\ UNCHANGED <<disk, flags, meta, outcomes, side, runLocals,
                   import_returncode, bunzip2_returncode, import_result, lines,
                   exitCode, written, scaleUpCalls, scaleDownCalls, gate,
                   checksum_mismatch>>

\* import_dump is entered; check_docker_running (lines 479-482)
CheckDockerStep ==
    /\ pc = "import_check"
    /\ called' = called \cup {"import_dump"}
    /\ \E psOk \in BOOLEAN, hasApp \in BOOLEAN :
          docker_running' = CheckDockerRunning(psOk, hasApp)
    /\ IF docker_running'
       THEN /\ pc' = "scale_up"
            /\ UNCHANGED import_result
       ELSE /\ pc' = "import_ret"
            /\ import_result' = FALSE
    /\ UNCHANGED <<disk, flags, meta, outcomes, side, runLocals,
                   import_returncode, bunzip2_returncode, lines, exitCode,
                   written, scaleUpCalls, scaleDownCalls, gate,
                   checksum_mismatch>>

\* scale_up_resources (lines 485-486); its failure is only warned about
ScaleUpStep ==
    /\ pc = "scale_up"
    /\ called' = called \cup {"scale_up_resources"}
    /\ scaleUpCalls' = scaleUpCalls + 1
    /\ pc' = "save_importing"
    /\ UNCHANGED <<disk, flags, meta, outcomes, side, locals, exitCode,
                   written, scaleDownCalls, gate, checksum_mismatch>>

\* the first checkpoint of the import (lines 500-508)
SaveImporting ==
    /\ pc = "save_importing"
    /\ SaveProgress("importing", latest_date_to_import)
    /\ pc' = "spawn"
    /\ UNCHANGED <<artifacts, flags, meta, outcomes, side, locals, exitCode,
                   called, scaleUpCalls, scaleDownCalls, gate,
                   checksum_mismatch>>

\* the log file is opened and the two processes are started (lines 521-540);
\* a failure of either raises into the handler of line 664
Spawn ==
    /\ pc = "spawn"
    /\ called' = called \cup {"Popen"}
    /\ \E step \in {"ok", "open_failed", "popen_failed"} :
          /\ logs' = IF step = "open_failed" THEN logs
                     ELSE TouchLog(logs, latest_date_to_import)
          /\ pc' = IF step = "ok" THEN "reading" ELSE "except"
    /\ UNCHANGED <<progress_file, files, partial, flags, meta, outcomes, side,
                   locals, exitCode, written, scaleUpCalls, scaleDownCalls,
                   gate, checksum_mismatch>>

\* one line of the ingestor's output (lines 568-604): a progress line read
\* 30 seconds or more after the last checkpoint rewrites the checkpoint; any
\* other line goes to the log only and leaves the state as it is
ReadLine ==
    /\ pc = "reading"
    /\ lines < MaxLines
    /\ lines' = lines + 1
    /\ SaveProgress("importing", latest_date_to_import)
    /\ UNCHANGED <<pc, artifacts, flags, meta, outcomes, side, runLocals,
                   docker_running, import_returncode, bunzip2_returncode,
                   import_result, exitCode, called, scaleUpCalls,
                   scaleDownCalls, gate, checksum_mismatch>>

\* the ingestor closes its output
EndOfStream ==
    /\ pc = "reading"
    /\ pc' = "wait"
    /\ UNCHANGED <<disk, flags, meta, outcomes, side, locals, exitCode, obs>>

\* reading the stream raises: the exception is printed and dropped
\* (lines 606-607)
StreamError ==
    /\ pc = "reading"
    /\ pc' = "wait"
    /\ UNCHANGED <<disk, flags, meta, outcomes, side, locals, exitCode, obs>>

\* both processes are waited for (lines 611-612)
Wait ==
    /\ pc = "wait"
    /\ \E irc \in {0, 1}, brc \in {0, 1} :
          /\ import_returncode' = irc
          /\ bunzip2_returncode' = brc
    /\ pc' = "finish"
    /\ UNCHANGED <<disk, flags, meta, outcomes, side, runLocals,
                   docker_running, import_result, lines, exitCode, obs>>

\* the outcome of the pipeline (lines 614-662, up to the scale-down)
Finish ==
    /\ pc = "finish"
    /\ LET o == PipelineOutcome(import_returncode, bunzip2_returncode)
       IN  CASE o = "decompress_failed" ->
                   /\ import_result' = FALSE
                   /\ pc' = "import_ret"
                   /\ UNCHANGED <<progress_file, written>>
             [] o = "completed" ->
                   /\ SaveProgress("completed", latest_date_to_import)
                   /\ import_result' = TRUE
                   /\ pc' = "scale_down"
             [] o = "failed" ->
                   /\ SaveProgress("failed", latest_date_to_import)
                   /\ import_result' = FALSE
                   /\ pc' = "scale_down"
    /\ UNCHANGED <<artifacts, flags, meta, outcomes, side, runLocals,
                   docker_running, import_returncode, bunzip2_returncode,
                   lines, exitCode, called, scaleUpCalls, scaleDownCalls, gate,
                   checksum_mismatch>>

\* except Exception (lines 664-674)
ExceptHandler ==
    /\ pc = "except"
    /\ SaveProgress("error", latest_date_to_import)
    /\ import_result' = FALSE
    /\ pc' = "scale_down"
    /\ UNCHANGED <<artifacts, flags, meta, outcomes, side, runLocals,
                   docker_running, import_returncode, bunzip2_returncode,
                   lines, exitCode, called, scaleUpCalls, scaleDownCalls, gate,
                   checksum_mismatch>>

\* ScaleDownStep whose first failure is raised to the caller, into the
\* handler of line 664
ScaleDownStep_raises ==
    /\ pc = "scale_down"
    /\ called' = called \cup {"scale_down_resources"}
    /\ scaleDownCalls' = scaleDownCalls + 1
    /\ \E ok \in BOOLEAN :
          /\ scale_down_ok' = IF ok THEN "ok" ELSE "failed"
          /\ pc' = IF ok \/ scaleDownCalls > 0 THEN "import_ret" ELSE "except"
    /\ UNCHANGED <<disk, flags, meta, side, locals, exitCode, written,
                   scaleUpCalls, gate, checksum_mismatch, download_failed,
                   rebuild_ok>>

\* scale_down_resources (lines 643, 661, 677; 350-424); it catches its own
\* failures and returns False, and its return value is not looked at
ScaleDownStep ==
    /\ pc = "scale_down"
    /\ called' = called \cup {"scale_down_resources"}
    /\ scaleDownCalls' = scaleDownCalls + 1
    /\ \E ok \in BOOLEAN : scale_down_ok' = IF ok THEN "ok" ELSE "failed"
    /\ pc' = "import_ret"
    /\ UNCHANGED <<disk, flags, meta, side, locals, exitCode, written,
                   scaleUpCalls, gate, checksum_mismatch, download_failed,
                   rebuild_ok>>

\* ImportReturn that goes on to the rebuild whatever import_dump returned
ImportReturn_ignoresResult ==
    /\ pc = "import_ret"
    /\ pc' = "rebuild"
    /\ UNCHANGED <<disk, flags, meta, outcomes, side, locals, obs, exitCode>>

\* ImportReturn that deletes the checkpoint of a failed import
ImportReturn_clearsOnFailure ==
    /\ pc = "import_ret"
    /\ IF import_result
       THEN /\ pc' = "rebuild"
            /\ UNCHANGED <<exitCode, progress_file>>
       ELSE /\ Exit(1)
            /\ progress_file' = NoProgress
    /\ UNCHANGED <<artifacts, flags, meta, outcomes, side, locals, obs>>

\* import_dump returns to run() (lines 902-903)
ImportReturn ==
    /\ pc = "import_ret"
    /\ IF import_result
       THEN /\ pc' = "rebuild"
            /\ UNCHANGED exitCode
       ELSE Exit(1)
    /\ UNCHANGED <<disk, flags, meta, outcomes, side, locals, obs>>

\* ------------------------------------------------------ the end of run()
\* Rebuild whose failure ends the run with 1
Rebuild_fatal ==
    /\ pc = "rebuild"
    /\ called' = called \cup {"rebuild_indexes"}
    /\ \E results \in [1..3 -> BOOLEAN] :
          /\ rebuild_ok' = IF RebuildIndexes(results) THEN "ok" ELSE "failed"
          /\ IF RebuildIndexes(results)
             THEN /\ pc' = "cleanup"
                  /\ UNCHANGED exitCode
             ELSE Exit(1)
    /\ UNCHANGED <<disk, flags, meta, side, locals, written, scaleUpCalls,
                   scaleDownCalls, gate, checksum_mismatch, download_failed,
                   scale_down_ok>>

\* rebuild_indexes; its failure is only warned about (lines 906-907)
Rebuild ==
    /\ pc = "rebuild"
    /\ called' = called \cup {"rebuild_indexes"}
    /\ \E results \in [1..3 -> BOOLEAN] :
          rebuild_ok' = IF RebuildIndexes(results) THEN "ok" ELSE "failed"
    /\ pc' = "cleanup"
    /\ UNCHANGED <<disk, flags, meta, side, locals, exitCode, written,
                   scaleUpCalls, scaleDownCalls, gate, checksum_mismatch,
                   download_failed, scale_down_ok>>

\* cleanup_old_dumps (lines 910, 720-744)
Cleanup ==
    /\ pc = "cleanup"
    /\ called' = called \cup {"cleanup_old_dumps"}
    /\ files' = CleanupOldDumps(files, latest_date_to_import)
    /\ partial' = partial \cap files'
    /\ logs' = CleanupLogs(logs)
    /\ pc' = "clear"
    /\ UNCHANGED <<progress_file, flags, meta, outcomes, side, locals,
                   exitCode, written, scaleUpCalls, scaleDownCalls, gate,
                   checksum_mismatch>>

\* clear_progress and return 0 (lines 914-925)
ClearProgress ==
    /\ pc = "clear"
    /\ called' = called \cup {"clear_progress"}
    /\ progress_file' = NoProgress
    /\ Exit(0)
    /\ UNCHANGED <<artifacts, flags, meta, outcomes, side, locals, written,
                   scaleUpCalls, scaleDownCalls, gate, checksum_mismatch>>

\* ------------------------------------------------------- stopping early
\* KeyboardInterrupt handled like any other exception: main() returns 1
KeyboardInterrupt_unexpectedError ==
    /\ pc \in Running
    /\ stoppedAt' = pc
    /\ Exit(1)
    /\ UNCHANGED <<disk, flags, locals, obs, outcomes, side, runs, start,
                   prev>>

\* KeyboardInterrupt: caught only by main() (lines 986-988), which exits
\* with 130; no handler on the way runs, so the files are left as a kill of
\* the process at the same point leaves them
KeyboardInterrupt ==
    /\ pc \in Running
    /\ stoppedAt' = pc
    /\ Exit(130)
    /\ UNCHANGED <<disk, flags, locals, obs, outcomes, side, runs, start,
                   prev>>

Next ==
    \/ Main
    \/ RebuildOnly
    \/ LoadProgress
    \/ Discover
    \/ Decide
    \/ ResumeGate
    \/ DownloadXml
    \/ TransferXml
    \/ DownloadIndex
    \/ TransferIndex
    \/ DownloadMd5
    \/ TransferMd5
    \/ Verify
    \/ DecompressIndex
    \/ ConfirmGate
    \/ CheckDockerStep
    \/ ScaleUpStep
    \/ SaveImporting
    \/ Spawn
    \/ ReadLine
    \/ EndOfStream
    \/ StreamError
    \/ Wait
    \/ Finish
    \/ ExceptHandler
    \/ ScaleDownStep
    \/ ImportReturn
    \/ Rebuild
    \/ Cleanup
    \/ ClearProgress
    \/ KeyboardInterrupt

Spec == Init /\ [][Next]_vars

\* ------------------------------------------- two runs, one directory
\* Two invocations of run() on the same wiki_dir, each a process of its own,
\* followed from the decision to import to the end of run().  They share the
\* checkpoint file and the logs; nothing in run() or import_dump looks for
\* another run.

\* what is left alone by the steps of the two runs
concRest == <<pc, flags, partial, locals, exitCode, obs, outcomes, meta,
              calls>>

\* positions between the first "importing" checkpoint and the return of
\* import_dump
ImportStage == {"spawn", "reading", "finish", "except", "scale_down",
                "import_ret"}

At(p, where) == procs[p].pc = where
Goto(p, where) == procs' = [procs EXCEPT ![p].pc = where]

\* run() up to the call of import_dump (lines 794-902): the checkpoint is
\* loaded and an import is decided, by the update or by the resume path
ConcDecide(p) ==
    /\ At(p, "idle")
    /\ \E cur \in {None} \cup Versions, latest \in Versions, force \in BOOLEAN :
          /\ UpdateDecision(cur, latest, force, progress_file)
                \in {"resume", "update"}
          /\ procs' = [procs EXCEPT ![p] = [pc |-> "import_check",
                                            date |-> latest,
                                            result |-> FALSE]]
    /\ UNCHANGED <<disk, concRest>>

\* import_dump: check_docker_running (lines 479-482); when the service does
\* not run import_dump returns at once and run() ends with 1
ConcCheckDocker(p) ==
    /\ At(p, "import_check")
    /\ \E psOk \in BOOLEAN, hasApp \in BOOLEAN :
          Goto(p, IF CheckDockerRunning(psOk, hasApp) THEN "scale_up"
                  ELSE "idle")
    /\ UNCHANGED <<disk, concRest>>

\* import_dump: scale_up_resources (lines 485-486)
ConcScaleUp(p) ==
    /\ At(p, "scale_up")
    /\ Goto(p, "save_importing")
    /\ UNCHANGED <<disk, concRest>>

\* import_dump: the first checkpoint (lines 500-508)
ConcSaveImporting(p) ==
    /\ At(p, "save_importing")
    /\ progress_file' = [status |-> "importing", dump_date |-> procs[p].date]
    /\ Goto(p, "spawn")
    /\ UNCHANGED <<artifacts, concRest>>

\* import_dump: the log is opened and the pipeline started (lines 521-540)
ConcSpawn(p) ==
    /\ At(p, "spawn")
    /\ \E step \in {"ok", "open_failed", "popen_failed"} :
          /\ logs' = IF step = "open_failed" THEN logs
                     ELSE TouchLog(logs, procs[p].date)
          /\ Goto(p, IF step = "ok" THEN "reading" ELSE "except")
    /\ UNCHANGED <<progress_file, files, concRest>>

\* import_dump: a due progress line rewrites the checkpoint (lines 568-604)
ConcReadLine(p) ==
    /\ At(p, "reading")
    /\ progress_file # [status |-> "importing", dump_date |-> procs[p].date]
    /\ progress_file' = [status |-> "importing", dump_date |-> procs[p].date]
    /\ UNCHANGED <<artifacts, procs, concRest>>

\* import_dump: the output ends and both processes are waited for
\* (lines 606-612)
ConcWait(p) ==
    /\ At(p, "reading")
    /\ Goto(p, "finish")
    /\ UNCHANGED <<disk, concRest>>

\* import_dump: the outcome of the pipeline (lines 614-662)
ConcFinish(p) ==
    /\ At(p, "finish")
    /\ \E irc \in {0, 1}, brc \in {0, 1} :
          LET o == PipelineOutcome(irc, brc)
          IN  IF o = "decompress_failed"
              THEN /\ Goto(p, "import_ret")
                   /\ UNCHANGED progress_file
              ELSE /\ progress_file' = [status |-> o,
                                        dump_date |-> procs[p].date]
                   /\ procs' = [procs EXCEPT
                                   ![p].pc = "scale_down",
                                   ![p].result = (o = "completed")]
    /\ UNCHANGED <<artifacts, concRest>>

\* import_dump: except Exception (lines 664-674)
ConcExcept(p) ==
    /\ At(p, "except")
    /\ progress_file' = [status |-> "error", dump_date |-> procs[p].date]
    /\ Goto(p, "scale_down")
    /\ UNCHANGED <<artifacts, concRest>>

\* import_dump: scale_down_resources (lines 643, 661, 677)
ConcScaleDown(p) ==
    /\ At(p, "scale_down")
    /\ Goto(p, "import_ret")
    /\ UNCHANGED <<disk, concRest>>

\* import_dump has returned: run() ends with 1, or goes on (lines 902-903)
ConcImportReturn(p) ==
    /\ At(p, "import_ret")
    /\ Goto(p, IF procs[p].result THEN "rebuild" ELSE "idle")
    /\ UNCHANGED <<disk, concRest>>

\* the end of run(): rebuild_indexes, cleanup_old_dumps, clear_progress
\* (lines 906-925)
ConcEnd(p) ==
    /\ At(p, "rebuild")
    /\ files' = CleanupOldDumps(files, procs[p].date)
    /\ logs' = CleanupLogs(logs)
    /\ progress_file' = NoProgress
    /\ Goto(p, "idle")
    /\ UNCHANGED <<partial, concRest>>

NextConc ==
    \E p \in Procs :
        \/ ConcDecide(p)
        \/ ConcCheckDocker(p)
        \/ ConcScaleUp(p)
        \/ ConcSaveImporting(p)
        \/ ConcSpawn(p)
        \/ ConcReadLine(p)
        \/ ConcWait(p)
        \/ ConcFinish(p)
        \/ ConcExcept(p)
        \/ ConcScaleDown(p)
        \/ ConcImportReturn(p)
        \/ ConcEnd(p)

SpecConc == Init /\ [][NextConc]_vars

\* ------------------------------------------------ cleanup_old_dumps alone
\* cleanup_old_dumps called on a directory that holds any artifacts of the
\* kept date and of the other dates, and any number of import logs.

\* the logs of a directory, most recently modified first: the names are
\* dates of earlier imports, in the order of the dates or against it
LogLists ==
    UNION {{[i \in 1..n |-> i], [i \in 1..n |-> n + 1 - i]} : n \in 0..MaxLogs}

InitCleanup ==
    /\ pc = "cleanup"
    /\ runs = 1
    /\ force_download = FALSE
    /\ rebuild_indexes_only = FALSE
    /\ progress_file = NoProgress
    /\ latest_date_to_import \in Versions
    /\ \E kept \in SUBSET AllKinds, others \in SUBSET AllKinds :
          files = ({latest_date_to_import} \X kept)
                     \cup ((Versions \ {latest_date_to_import}) \X others)
    /\ partial = {}
    /\ logs \in LogLists
    /\ progress = NoProgress
    /\ current_date = None
    /\ latest_date = latest_date_to_import
    /\ skip_download = FALSE
    /\ docker_running = TRUE
    /\ import_returncode = 0
    /\ bunzip2_returncode = 0
    /\ import_result = TRUE
    /\ lines = 0
    /\ exitCode = -1
    /\ called = {"import_dump", "rebuild_indexes"}
    /\ written = <<>>
    /\ scaleUpCalls = 0
    /\ scaleDownCalls = 0
    /\ gate = "none"
    /\ checksum_mismatch = FALSE
    /\ stoppedAt = "none"
    /\ download_failed = {}
    /\ scale_down_ok = "none"
    /\ rebuild_ok = "none"
    /\ start = [progress_file |-> NoProgress, files |-> files, logs |-> logs]
    /\ prev = None
    /\ procs = [p \in Procs |->
                   [pc |-> "idle", date |-> None, result |-> FALSE]]
    /\ NoCalls

NextCleanup == Cleanup

SpecCleanup == InitCleanup /\ [][NextCleanup]_vars

\* ------------------------------------------ get_latest_dump_date alone
\* One call of get_latest_dump_date followed probe by probe (lines 69-98).

\* what the HEAD request for the md5sums file of a date gives: status 200,
\* another status, or a RequestException
ProbeAnswers == {"200", "404", "error"}

\* what is left alone by the steps of get_latest_dump_date
latestRest == <<pc, flags, disk, locals, exitCode, obs, outcomes, meta,
                procs, rebuild_run, config, scale, loop>>

\* requests.get of the listing (lines 75-80): it raises, or gives the dates
\* of the listing, which are sorted descending
LatestCall ==
    /\ latest_dump.pc \in {"idle", "returned"}
    /\ \E listingOk \in BOOLEAN, dates \in SUBSET Versions,
          probe \in [Versions -> ProbeAnswers] :
          latest_dump' = [pc |-> IF listingOk THEN "probing" ELSE "returned",
                          listing_ok |-> listingOk,
                          dates |-> dates,
                          probe |-> probe,
                          todo |-> IF listingOk THEN dates ELSE {},
                          ret |-> None]
    /\ UNCHANGED latestRest

\* LatestProbe that gives up at the first probe that raises
LatestProbe_stopsOnError ==
    /\ latest_dump.pc = "probing"
    /\ latest_dump.todo # {}
    /\ LET date == Max(latest_dump.todo)
       IN  latest_dump' =
              IF latest_dump.probe[date] = "200"
              THEN [latest_dump EXCEPT !.pc = "returned", !.ret = date]
              ELSE IF latest_dump.probe[date] = "error"
                   THEN [latest_dump EXCEPT !.pc = "returned"]
                   ELSE [latest_dump EXCEPT !.todo = @ \ {date}]
    /\ UNCHANGED latestRest

\* one pass of the loop over the dates (lines 83-91): the greatest date not
\* yet probed is probed; 200 returns it, anything else goes on
LatestProbe ==
    /\ latest_dump.pc = "probing"
    /\ latest_dump.todo # {}
    /\ LET date == Max(latest_dump.todo)
       IN  latest_dump' =
              IF latest_dump.probe[date] = "200"
              THEN [latest_dump EXCEPT !.pc = "returned", !.ret = date]
              ELSE [latest_dump EXCEPT !.todo = @ \ {date}]
    /\ UNCHANGED latestRest

\* the loop is over without a return (lines 93-94)
LatestNone ==
    /\ latest_dump.pc = "probing"
    /\ latest_dump.todo = {}
    /\ latest_dump' = [latest_dump EXCEPT !.pc = "returned"]
    /\ UNCHANGED latestRest

NextLatest ==
    \/ LatestCall
    \/ LatestProbe
    \/ LatestNone

SpecLatest == Init /\ [][NextLatest]_vars

\* ------------------------------------------------ rebuild_indexes alone
\* Calls of rebuild_indexes followed step by step (lines 680-718), from the
\* rebuild-only branch of run() or after an import.

\* the maintenance steps, in the order of the list of lines 684-688
Steps == <<"rebuildrecentchanges", "rebuildall", "runJobs">>

\* what is left alone by the steps of rebuild_indexes
rebuildRest == <<pc, force_download, disk, locals, obs, download_failed,
                 scale_down_ok, stoppedAt, start, prev, procs, latest_dump,
                 config, scale, loop>>

\* rebuild_indexes returns to run(): the rebuild-only branch returns 0 or 1
\* (lines 786-792), after an import a failure is only warned about
\* (lines 906-907)
RebuildReturns(ret) ==
    /\ rebuild_ok' = IF ret THEN "ok" ELSE "failed"
    /\ exitCode' = IF rebuild_indexes_only THEN (IF ret THEN 0 ELSE 1)
                   ELSE exitCode

\* run() calls rebuild_indexes (line 786 or 906); results[i] tells whether
\* the command of step i will exit with 0
RebuildCall ==
    /\ rebuild_run.pc \in {"idle", "returned"}
    /\ runs < MaxRuns
    /\ runs' = runs + 1
    /\ \E only \in BOOLEAN, results \in [1..Len(Steps) -> BOOLEAN] :
          /\ rebuild_indexes_only' = only
          /\ rebuild_run' = [pc |-> "step",
                             results |-> results,
                             i |-> 1,
                             executed |-> <<>>,
                             failed_steps |-> {},
                             ret |-> FALSE]
    /\ rebuild_ok' = "none"
    /\ exitCode' = -1
    /\ UNCHANGED rebuildRest

\* RebuildStep that returns failure when an optional step fails
RebuildStep_optionalAborts ==
    /\ rebuild_run.pc = "step"
    /\ rebuild_run.i <= Len(Steps)
    /\ LET i == rebuild_run.i
           ran == Append(rebuild_run.executed, Steps[i])
       IN  IF rebuild_run.results[i]
           THEN /\ rebuild_run' = [rebuild_run EXCEPT !.executed = ran,
                                                      !.i = i + 1]
                /\ UNCHANGED <<rebuild_ok, exitCode>>
           ELSE /\ rebuild_run' = [rebuild_run EXCEPT !.executed = ran,
                                                      !.pc = "returned",
                                                      !.ret = FALSE]
                /\ RebuildReturns(FALSE)
    /\ UNCHANGED <<rebuildRest, runs, rebuild_indexes_only>>

\* one pass of the loop over the steps (lines 691-712): the command runs;
\* when it fails, a required step returns False and an optional one is
\* noted in failed_steps
RebuildStep ==
    /\ rebuild_run.pc = "step"
    /\ rebuild_run.i <= Len(Steps)
    /\ LET i == rebuild_run.i
           ran == Append(rebuild_run.executed, Steps[i])
       IN  IF rebuild_run.results[i]
           THEN /\ rebuild_run' = [rebuild_run EXCEPT !.executed = ran,
                                                      !.i = i + 1]
                /\ UNCHANGED <<rebuild_ok, exitCode>>
           ELSE IF Required[i]
                THEN /\ rebuild_run' = [rebuild_run EXCEPT
                                           !.executed = ran,
                                           !.pc = "returned",
                                           !.ret = FALSE]
                     /\ RebuildReturns(FALSE)
                ELSE /\ rebuild_run' = [rebuild_run EXCEPT
                                           !.executed = ran,
                                           !.failed_steps = @ \cup {Steps[i]},
                                           !.i = i + 1]
                     /\ UNCHANGED <<rebuild_ok, exitCode>>
    /\ UNCHANGED <<rebuildRest, runs, rebuild_indexes_only>>

\* the loop is over: rebuild_indexes returns True (lines 714-718)
RebuildDone ==
    /\ rebuild_run.pc = "step"
    /\ rebuild_run.i > Len(Steps)
    /\ rebuild_run' = [rebuild_run EXCEPT !.pc = "returned", !.ret = TRUE]
    /\ RebuildReturns(TRUE)
    /\ UNCHANGED <<rebuildRest, runs, rebuild_indexes_only>>

NextRebuild ==
    \/ RebuildCall
    \/ RebuildStep
    \/ RebuildDone

SpecRebuild == Init /\ [][NextRebuild]_vars

\* ------------------------------- scale_up_resources, scale_down_resources
\* The two functions followed statement by statement over the contents of
\* docker-compose.yml, 99-tuning.cnf and their .backup copies, in the
\* order import_dump calls them, with processes that are killed.

\* what a managed file can hold: the operator's own settings, one of the
\* two hardcoded profiles, or (docker-compose.yml only) a text without the
\* command line that the regular expression of lines 294 and 371 matches
ComposeInstalled == {"custom", "normal", "plain"}
TuningInstalled == {"custom", "normal"}

\* re.sub of lines 293-297 and 370-374: the command line is replaced where
\* it is found, the text is left as it is where it is not
Rewrite(content, profile) == IF content = "plain" THEN content ELSE profile

\* what is left alone by the steps of the two functions
scaleRest == <<pc, flags, disk, locals, exitCode, obs, outcomes, stoppedAt,
               start, prev, procs, latest_dump, rebuild_run, loop>>

InitScale ==
    /\ NoRun
    /\ latest_dump = [pc |-> "idle"]
    /\ rebuild_run = [pc |-> "idle"]
    /\ loop = [pc |-> "idle"]
    /\ \E compose \in ComposeInstalled, tuning \in TuningInstalled :
          config = Installed(compose, tuning)
    /\ scale = NoScaling(config)

\* a statement of scale_up_resources raised: the handler of lines 340-348
\* is entered
ScaleUpRaised == [scale EXCEPT !.pc = "up_restore_compose"]

\* a statement of scale_down_resources raised: the handler of lines
\* 422-424 returns False
ScaleDownRaised == [scale EXCEPT !.pc = "idle", !.down_ret = "failed"]

\* import_dump in a new process calls scale_up_resources (line 485)
ScaleUpCall ==
    /\ scale.pc = "idle"
    /\ runs < MaxRuns
    /\ runs' = runs + 1
    /\ scale' = [NoScaling(config) EXCEPT !.pc = "up_backup_compose",
                                          !.op = "up"]
    /\ UNCHANGED <<config, scaleRest>>

\* cp docker-compose.yml docker-compose.yml.backup (line 285)
ScaleUpBackupCompose ==
    /\ scale.pc = "up_backup_compose"
    /\ \E ok \in BOOLEAN :
          IF ok
          THEN /\ config' = [config EXCEPT !.compose_backup = config.compose]
               /\ scale' = [scale EXCEPT !.pc = "up_backup_tuning",
                                         !.copied = @ \cup {"compose"}]
          ELSE /\ scale' = ScaleUpRaised
               /\ UNCHANGED config
    /\ UNCHANGED <<runs, scaleRest>>

\* cp 99-tuning.cnf 99-tuning.cnf.backup (line 286)
ScaleUpBackupTuning ==
    /\ scale.pc = "up_backup_tuning"
    /\ \E ok \in BOOLEAN :
          IF ok
          THEN /\ config' = [config EXCEPT !.tuning_backup = config.tuning]
               /\ scale' = [scale EXCEPT !.pc = "up_rewrite_compose",
                                         !.copied = @ \cup {"tuning"}]
          ELSE /\ scale' = ScaleUpRaised
               /\ UNCHANGED config
    /\ UNCHANGED <<runs, scaleRest>>

\* docker-compose.yml is read, its command line replaced by the aggressive
\* one, and written (lines 289-300)
ScaleUpRewriteCompose ==
    /\ scale.pc = "up_rewrite_compose"
    /\ \E ok \in BOOLEAN :
          IF ok
          THEN /\ config' = [config EXCEPT
                                !.compose = Rewrite(@, "aggressive")]
               /\ scale' = [scale EXCEPT !.pc = "up_write_tuning",
                                         !.rewritten = @ \cup {"compose"}]
          ELSE /\ scale' = ScaleUpRaised
               /\ UNCHANGED config
    /\ UNCHANGED <<runs, scaleRest>>

\* 99-tuning.cnf is overwritten with aggressive_config (lines 303-317)
ScaleUpWriteTuning ==
    /\ scale.pc = "up_write_tuning"
    /\ \E ok \in BOOLEAN :
          IF ok
          THEN /\ config' = [config EXCEPT !.tuning = "aggressive"]
               /\ scale' = [scale EXCEPT !.pc = "up_restart",
                                         !.rewritten = @ \cup {"tuning"}]
          ELSE /\ scale' = ScaleUpRaised
               /\ UNCHANGED config
    /\ UNCHANGED <<runs, scaleRest>>

\* docker compose restart db; scale_up_resources returns True
\* (lines 321-338)
ScaleUpRestart ==
    /\ scale.pc = "up_restart"
    /\ \E ok \in BOOLEAN :
          scale' = IF ok
                   THEN [scale EXCEPT !.pc = "import", !.up_ret = "ok"]
                   ELSE ScaleUpRaised
    /\ UNCHANGED <<config, runs, scaleRest>>

\* the handler: cp docker-compose.yml.backup docker-compose.yml (line 344);
\* when cp fails, the second copy is not tried and False is returned
\* (lines 346-348)
ScaleUpRestoreCompose ==
    /\ scale.pc = "up_restore_compose"
    /\ \E ok \in BOOLEAN :
          IF ok /\ config.compose_backup # Absent
          THEN /\ config' = [config EXCEPT !.compose = config.compose_backup]
               /\ scale' = [scale EXCEPT !.pc = "up_restore_tuning"]
          ELSE /\ scale' = [scale EXCEPT !.pc = "import",
                                         !.up_ret = "failed"]
               /\ UNCHANGED config
    /\ UNCHANGED <<runs, scaleRest>>

\* the handler: cp 99-tuning.cnf.backup 99-tuning.cnf (line 345), then
\* return False (line 348)
ScaleUpRestoreTuning ==
    /\ scale.pc = "up_restore_tuning"
    /\ \E ok \in BOOLEAN :
          config' = IF ok /\ config.tuning_backup # Absent
                    THEN [config EXCEPT !.tuning = config.tuning_backup]
                    ELSE config
    /\ scale' = [scale EXCEPT !.pc = "import", !.up_ret = "failed"]
    /\ UNCHANGED <<runs, scaleRest>>

\* import_dump returns False on a failed decompressor without calling
\* scale_down_resources (lines 613-618); the process ends
ImportReturnsUnscaled ==
    /\ scale.pc = "import"
    /\ scale' = NoScaling(config)
    /\ UNCHANGED <<config, runs, scaleRest>>

\* ScaleDownCall that restores when either .backup exists
ScaleDownCall_eitherBackup ==
    /\ scale.pc = "import"
    /\ scale' = [scale EXCEPT
          !.op = "down",
          !.at_call = config,
          !.branch = IF config.compose_backup = Absent
                         /\ config.tuning_backup = Absent
                     THEN "defaults" ELSE "restore",
          !.pc = IF config.compose_backup = Absent
                     /\ config.tuning_backup = Absent
                 THEN "down_rewrite_compose" ELSE "down_restore_compose"]
    /\ UNCHANGED <<config, runs, scaleRest>>

\* import_dump calls scale_down_resources (lines 643, 661, 677), which
\* looks for the two .backup files (line 359)
ScaleDownCall ==
    /\ scale.pc = "import"
    /\ scale' = [scale EXCEPT
          !.op = "down",
          !.at_call = config,
          !.branch = IF config.compose_backup = Absent
                         \/ config.tuning_backup = Absent
                     THEN "defaults" ELSE "restore",
          !.pc = IF config.compose_backup = Absent
                     \/ config.tuning_backup = Absent
                 THEN "down_rewrite_compose" ELSE "down_restore_compose"]
    /\ UNCHANGED <<config, runs, scaleRest>>

\* no backups: docker-compose.yml is read, its command line replaced by
\* the normal one, and written (lines 367-377)
ScaleDownRewriteCompose ==
    /\ scale.pc = "down_rewrite_compose"
    /\ \E ok \in BOOLEAN :
          IF ok
          THEN /\ config' = [config EXCEPT !.compose = Rewrite(@, "normal")]
               /\ scale' = [scale EXCEPT !.pc = "down_write_tuning"]
          ELSE /\ scale' = ScaleDownRaised
               /\ UNCHANGED config
    /\ UNCHANGED <<runs, scaleRest>>

\* no backups: 99-tuning.cnf is overwritten with normal_config
\* (lines 380-393)
ScaleDownWriteTuning ==
    /\ scale.pc = "down_write_tuning"
    /\ \E ok \in BOOLEAN :
          IF ok
          THEN /\ config' = [config EXCEPT !.tuning = "normal"]
               /\ scale' = [scale EXCEPT !.pc = "down_restart"]
          ELSE /\ scale' = ScaleDownRaised
               /\ UNCHANGED config
    /\ UNCHANGED <<runs, scaleRest>>

\* cp docker-compose.yml.backup docker-compose.yml (line 399)
ScaleDownRestoreCompose ==
    /\ scale.pc = "down_restore_compose"
    /\ \E ok \in BOOLEAN :
          IF ok
          THEN /\ config' = [config EXCEPT !.compose = config.compose_backup]
               /\ scale' = [scale EXCEPT !.pc = "down_restore_tuning"]
          ELSE /\ scale' = ScaleDownRaised
               /\ UNCHANGED config
    /\ UNCHANGED <<runs, scaleRest>>

\* ScaleDownRestoreTuning that leaves 99-tuning.cnf as it is
ScaleDownRestoreTuning_skipped ==
    /\ scale.pc = "down_restore_tuning"
    /\ \E ok \in BOOLEAN :
          IF ok
          THEN /\ scale' = [scale EXCEPT !.pc = "down_unlink_compose"]
               /\ UNCHANGED config
          ELSE /\ scale' = ScaleDownRaised
               /\ UNCHANGED config
    /\ UNCHANGED <<runs, scaleRest>>

\* cp 99-tuning.cnf.backup 99-tuning.cnf (line 400)
ScaleDownRestoreTuning ==
    /\ scale.pc = "down_restore_tuning"
    /\ \E ok \in BOOLEAN :
          IF ok
          THEN /\ config' = [config EXCEPT !.tuning = config.tuning_backup]
               /\ scale' = [scale EXCEPT !.pc = "down_unlink_compose"]
          ELSE /\ scale' = ScaleDownRaised
               /\ UNCHANGED config
    /\ UNCHANGED <<runs, scaleRest>>

\* compose_backup.unlink() (line 403)
ScaleDownUnlinkCompose ==
    /\ scale.pc = "down_unlink_compose"
    /\ \E ok \in BOOLEAN :
          IF ok
          THEN /\ config' = [config EXCEPT !.compose_backup = Absent]
               /\ scale' = [scale EXCEPT !.pc = "down_unlink_tuning"]
          ELSE /\ scale' = ScaleDownRaised
               /\ UNCHANGED config
    /\ UNCHANGED <<runs, scaleRest>>

\* tuning_backup.unlink() (line 404)
ScaleDownUnlinkTuning ==
    /\ scale.pc = "down_unlink_tuning"
    /\ \E ok \in BOOLEAN :
          IF ok
          THEN /\ config' = [config EXCEPT !.tuning_backup = Absent]
               /\ scale' = [scale EXCEPT !.pc = "down_restart"]
          ELSE /\ scale' = ScaleDownRaised
               /\ UNCHANGED config
    /\ UNCHANGED <<runs, scaleRest>>

\* docker compose restart db; scale_down_resources returns True
\* (lines 408-420)
ScaleDownRestart ==
    /\ scale.pc = "down_restart"
    /\ \E ok \in BOOLEAN :
          scale' = IF ok
                   THEN [scale EXCEPT !.pc = "idle", !.down_ret = "ok"]
                   ELSE ScaleDownRaised
    /\ UNCHANGED <<config, runs, scaleRest>>

\* the process is killed between two statements: what it wrote stays, what
\* it had in memory is gone
ProcessKilled ==
    /\ scale.pc # "idle"
    /\ scale' = NoScaling(config)
    /\ UNCHANGED <<config, runs, scaleRest>>

NextScale ==
    \/ ScaleUpCall
    \/ ScaleUpBackupCompose
    \/ ScaleUpBackupTuning
    \/ ScaleUpRewriteCompose
    \/ ScaleUpWriteTuning
    \/ ScaleUpRestart
    \/ ScaleUpRestoreCompose
    \/ ScaleUpRestoreTuning
    \/ ImportReturnsUnscaled
    \/ ScaleDownCall
    \/ ScaleDownRewriteCompose
    \/ ScaleDownWriteTuning
    \/ ScaleDownRestoreCompose
    \/ ScaleDownRestoreTuning
    \/ ScaleDownUnlinkCompose
    \/ ScaleDownUnlinkTuning
    \/ ScaleDownRestart
    \/ ProcessKilled

SpecScale == InitScale /\ [][NextScale]_vars

\* ------------------------------------------- the read loop of import_dump
\* The loop over the lines of the ingestor (lines 542-604) followed on its
\* own, with the time of the wall clock that datetime.now() reads.

\* seconds between two checkpoints of the loop (line 588)
SaveInterval == 30

\* timedelta.seconds (line 588) is the seconds part of a difference that
\* is kept as days, seconds and microseconds with 0 <= seconds < 86400
DaySeconds == 86400
TimedeltaSeconds(d) == d % DaySeconds

\* seconds that pass between two lines of the ingestor
Delays == {1, 30}

\* datetime.now() (line 587) is the local wall clock: between two readings
\* it is set back by an hour once when daylight saving time ends
Adjustments == {0, -3600}

\* values of the rate that a progress line reports
Rates == {1, 2}

\* what is left alone by the read loop
loopRest == <<pc, runs, flags, disk, locals, exitCode, obs, outcomes,
              stoppedAt, start, prev, procs, latest_dump, rebuild_run,
              config, scale>>

\* a checkpoint as it is written: where it is written, the time that has
\* really passed since the loop began, last_update, pages_imported and
\* current_rate, and beside them the line parsed last and the counter in
\* memory at that moment
Snapshot(kind, real, now, pages, rate, parsed, counter) ==
    [kind |-> kind, real |-> real, last_update |-> now,
     pages_imported |-> pages, current_rate |-> rate,
     parsed |-> parsed, counter |-> counter]

\* import_dump writes the first checkpoint (lines 500-508), starts the
\* two processes and enters the loop (lines 542-544)
LoopStart ==
    /\ loop.pc = "idle"
    /\ loop' = [pc |-> "reading",
                real |-> 0,
                now |-> 0,
                adjusted |-> FALSE,
                last_progress_update |-> 0,
                pages_count |-> 0,
                current_rate |-> 0,
                before |-> 0,
                line |-> "none",
                reported |-> 0,
                parsed |-> <<0, 0>>,
                n |-> 0,
                snapshots |-> <<Snapshot("first", 0, 0, 0, 0, <<0, 0>>, 0)>>]
    /\ UNCHANGED loopRest

\* the clock after a delay, set back or not
Later(dt, adj) ==
    [loop EXCEPT !.real = @ + dt,
                 !.now = @ + dt + adj,
                 !.adjusted = @ \/ adj # 0,
                 !.n = @ + 1,
                 !.before = loop.pages_count]

\* ReadProgressLine that writes pages_imported without assigning the
\* count of the line to the counter in memory
ReadProgressLine_staleCounter ==
    /\ loop.pc = "reading"
    /\ loop.n < MaxProgressLines
    /\ \E dt \in Delays, adj \in Adjustments,
          count \in loop.reported..MaxPages, rate \in Rates :
          /\ adj # 0 => ~loop.adjusted
          /\ LET l == [Later(dt, adj) EXCEPT !.line = "progress",
                                            !.reported = count,
                                            !.parsed = <<count, rate>>,
                                            !.current_rate = rate]
             IN  IF TimedeltaSeconds(l.now - l.last_progress_update)
                       >= SaveInterval
                 THEN loop' = [l EXCEPT
                         !.snapshots = Append(@,
                             Snapshot("loop", l.real, l.now, count,
                                      l.current_rate, l.parsed,
                                      l.pages_count)),
                         !.last_progress_update = l.now]
                 ELSE loop' = l
    /\ UNCHANGED loopRest

\* a line that matches the pattern of line 574: the counter and the rate
\* are assigned (lines 576-577) and, when the seconds of the time since
\* the last checkpoint are 30 or more, the checkpoint is rewritten
\* (lines 587-604)
ReadProgressLine ==
    /\ loop.pc = "reading"
    /\ loop.n < MaxProgressLines
    /\ \E dt \in Delays, adj \in Adjustments,
          count \in loop.reported..MaxPages, rate \in Rates :
          /\ adj # 0 => ~loop.adjusted
          /\ LET l == [Later(dt, adj) EXCEPT !.line = "progress",
                                            !.reported = count,
                                            !.parsed = <<count, rate>>,
                                            !.pages_count = count,
                                            !.current_rate = rate]
             IN  IF TimedeltaSeconds(l.now - l.last_progress_update)
                       >= SaveInterval
                 THEN loop' = [l EXCEPT
                         !.snapshots = Append(@,
                             Snapshot("loop", l.real, l.now, l.pages_count,
                                      l.current_rate, l.parsed,
                                      l.pages_count)),
                         !.last_progress_update = l.now]
                 ELSE loop' = l
    /\ UNCHANGED loopRest

\* a line that does not match the pattern: it is only copied to the log
\* (lines 569-575)
ReadOtherLine ==
    /\ loop.pc = "reading"
    /\ loop.n < MaxProgressLines
    /\ \E dt \in Delays, adj \in Adjustments :
          /\ adj # 0 => ~loop.adjusted
          /\ loop' = [Later(dt, adj) EXCEPT !.line = "other"]
    /\ UNCHANGED loopRest

\* the stream ends and both processes are waited for; the final checkpoint
\* carries pages_count when the decompressor succeeded (lines 611-656),
\* nothing is written when it failed (lines 613-618)
LoopEnd ==
    /\ loop.pc = "reading"
    /\ \E outcome \in {"completed", "failed", "unwritten"} :
          loop' = [loop EXCEPT
              !.pc = "ended",
              !.snapshots =
                  IF outcome = "unwritten" THEN @
                  ELSE Append(@, Snapshot(outcome, loop.real, loop.now,
                                          loop.pages_count,
                                          loop.current_rate, loop.parsed,
                                          loop.pages_count))]
    /\ UNCHANGED loopRest

NextLoop ==
    \/ LoopStart
    \/ ReadProgressLine
    \/ ReadOtherLine
    \/ LoopEnd

SpecLoop == Init /\ [][NextLoop]_vars

\* ================================================================ claims

ResumeGates == {"resume_offered", "resume_yes", "resume_no"}
Terminal == {"completed", "failed", "error"}

\* the archive, the index and the manifest of a date
ThreeArtifacts(d) == {<<d, "xml">>, <<d, "index">>, <<d, "md5">>}

\* C1 (as claimed): when import_dump returns after scale_up_resources ran,
\* scale_down_resources has been invoked exactly once.
C1_ScaleDownExactlyOnce ==
    (pc = "import_ret" /\ scaleUpCalls >= 1) => scaleDownCalls = 1

\* C2 (as claimed): a process that ended with status 130 on an interrupt that
\* arrived after scale_up_resources and before import_dump returned has run
\* scale_down_resources.
C2_InterruptStillScalesDown ==
    (pc = "exited" /\ exitCode = 130 /\ stoppedAt \in AfterScaleUp)
        => scaleDownCalls >= 1

\* C3: once md5sum has found a listed file whose hash disagrees, run() has
\* returned 1, and scale_up_resources and import_dump were never invoked and
\* no checkpoint was written.
C3_ChecksumGate ==
    checksum_mismatch =>
        /\ pc = "exited" /\ exitCode = 1
        /\ scaleUpCalls = 0
        /\ "import_dump" \notin called
        /\ written = <<>>
        /\ progress_file = start.progress_file

C3_Witness ==
    /\ checksum_mismatch
    /\ pc = "exited" /\ exitCode = 1
    /\ "verify_checksums" \in called

\* the case of C4: local = latest, force unset, loaded checkpoint completed
\* for that date
NoOpCase ==
    /\ ~rebuild_indexes_only
    /\ ~force_download
    /\ latest_date # None
    /\ current_date = latest_date
    /\ progress.status = "completed"
    /\ progress.dump_date = latest_date

\* C4: in that case run() invokes nothing, changes neither the artifacts nor
\* the checkpoint, and returns 0 (unless it was stopped before deciding).
C4_Idempotence ==
    NoOpCase =>
        /\ called = {}
        /\ written = <<>>
        /\ scaleUpCalls = 0 /\ scaleDownCalls = 0
        /\ gate = "none"
        /\ files = start.files
        /\ progress_file = start.progress_file
        /\ pc \in {"decide"} \cup Ended
        /\ (pc = "exited" /\ stoppedAt = "none") => exitCode = 0
        /\ pc \in Ended => stoppedAt \in {"none", "decide"}

C4_Witness ==
    /\ NoOpCase
    /\ pc = "exited" /\ stoppedAt = "none" /\ exitCode = 0

\* the premise of C5: the run started with a checkpoint "importing" for a date
\* whose three artifacts were on disk
ResumeGiven ==
    /\ pc \in Running \cup Ended
    /\ start.progress_file.status = "importing"
    /\ ThreeArtifacts(start.progress_file.dump_date) \subseteq start.files

\* C5 (as claimed): given that, run() never invokes download_dump nor
\* verify_checksums.
C5_ResumeAlways ==
    ResumeGiven =>
        /\ "download_dump" \notin called
        /\ "verify_checksums" \notin called

\* the case of C5 as amended: moreover not rebuild-only, force unset, and the
\* date is both the local and the latest remote version
ResumeCase ==
    /\ ResumeGiven
    /\ ~rebuild_indexes_only
    /\ ~force_download
    /\ latest_date = start.progress_file.dump_date
    /\ current_date = latest_date

\* C5 (amended): in that case run() offers the resume gate, never invokes
\* download_dump, verify_checksums nor decompress_index, and once the gate is
\* accepted its next step is import_dump for that date.
C5_Resume ==
    ResumeCase =>
        /\ "download_dump" \notin called
        /\ "verify_checksums" \notin called
        /\ "decompress_index" \notin called
        /\ (pc # "decide" /\ stoppedAt # "decide") => gate \in ResumeGates
        /\ gate = "resume_yes" =>
              /\ latest_date_to_import = start.progress_file.dump_date
              /\ skip_download
              /\ \/ pc = "import_check"
                 \/ stoppedAt = "import_check"
                 \/ "import_dump" \in called

C5_Witness ==
    /\ ResumeCase
    /\ gate = "resume_yes"
    /\ "import_dump" \in called
    /\ called \cap {"download_dump", "verify_checksums"} = {}

Rank(s) == IF s = "downloading" THEN 1 ELSE IF s = "importing" THEN 2 ELSE 3

\* C7: the statuses written in one run never step backwards, and a terminal
\* status is the last one written.
C7_Monotonic ==
    \A i \in 1..(Len(written) - 1) :
        /\ Rank(written[i]) <= Rank(written[i + 1])
        /\ written[i] \notin Terminal

C7_Witness ==
    /\ Len(written) >= 3
    /\ written[Len(written)] \in Terminal

\* C8 (as claimed): when import_dump returns after the decompressor exited
\* nonzero, it returns failure and the checkpoint is marked failed.
C8_DecompressorFailureMarked ==
    (pc = "import_ret" /\ bunzip2_returncode \notin {-1, 0}) =>
        /\ ~import_result
        /\ progress_file.status = "failed"

\* C9 (as claimed): when import_dump returns after starting the pipeline, it
\* returns success iff the checkpoint is completed, which is iff both exit
\* codes are 0; a nonzero ingestor exit leaves failed, an exception leaves
\* error.
C9_ResultMatchesCheckpoint ==
    (pc = "import_ret" /\ "Popen" \in called) =>
        /\ import_result <=> progress_file.status = "completed"
        /\ progress_file.status = "completed"
              <=> (import_returncode = 0 /\ bunzip2_returncode = 0)
        /\ import_returncode \notin {-1, 0} =>
              (progress_file.status = "failed" /\ ~import_result)
        /\ import_returncode = -1 =>
              (progress_file.status = "error" /\ ~import_result)

\* C10: when import_dump found the service not running, it returns failure
\* and nothing was scaled, spawned or written to the checkpoint.
C10_ServiceNotRunning ==
    ("import_dump" \in called /\ ~docker_running) =>
        /\ ~import_result
        /\ scaleUpCalls = 0 /\ scaleDownCalls = 0
        /\ "scale_up_resources" \notin called
        /\ "Popen" \notin called
        /\ written = <<>>
        /\ progress_file = start.progress_file
        /\ pc \in {"import_ret"} \cup Ended
        /\ (pc = "exited" /\ stoppedAt = "none") => exitCode = 1

C10_Witness ==
    /\ "import_dump" \in called
    /\ ~docker_running
    /\ pc = "exited" /\ stoppedAt = "none" /\ exitCode = 1

\* a run that came to its end by itself
Returned == pc = "exited" /\ stoppedAt = "none"

\* C11 (as claimed): whenever scale_down_resources returned failure,
\* import_dump returns failure and run() exits nonzero.
C11_ScaleDownFailureFatal ==
    /\ (pc = "import_ret" /\ scale_down_ok = "failed") => ~import_result
    /\ (Returned /\ scale_down_ok = "failed") => exitCode # 0

\* C12 (as claimed): once the download of the archive, of the index or of the
\* checksum manifest has failed, run() has returned nonzero and neither
\* verify_checksums nor import_dump was invoked.
C12_AnyDownloadFailureAborts ==
    download_failed # {} =>
        /\ Returned /\ exitCode # 0
        /\ called \cap {"verify_checksums", "import_dump"} = {}

\* C12 (amended): once the download of the archive or of the index has
\* failed, run() has returned 1 and verify_checksums, decompress_index and
\* import_dump were never invoked; a failed download of the checksum manifest
\* alone does not end the run, which goes on to verify_checksums.
C12_CriticalDownloadFailureAborts ==
    /\ download_failed \cap {"xml", "index"} # {} =>
          /\ Returned /\ exitCode = 1
          /\ called \cap {"verify_checksums", "decompress_index",
                          "import_dump"} = {}
          /\ written = <<>>
    /\ download_failed = {"md5"} =>
          \/ pc = "verify"
          \/ stoppedAt = "verify"
          \/ "verify_checksums" \in called

C12_Witness ==
    /\ download_failed = {"index"}
    /\ Returned /\ exitCode = 1
    /\ <<latest_date, "xml">> \in files

\* C13 (as claimed): outside a transfer no half-written destination exists,
\* also after a transfer that raised or during which the process was
\* interrupted.
C13_NoHalfWrittenFile ==
    pc \notin Transferring => partial = {}

\* C14 (as claimed): of two invocations of run() on the same directory, at
\* most one is between its first "importing" checkpoint and the return of
\* its import_dump.
C14_AtMostOneImporting ==
    Cardinality({p \in Procs : procs[p].pc \in ImportStage}) <= 1

\* C15: when import_dump has returned failure, run() returns 1, and
\* rebuild_indexes, cleanup_old_dumps and clear_progress are never invoked:
\* no artifact of another version and no log is removed, and the checkpoint
\* is the last one the import wrote.
C15_ImportFailureStops ==
    ("import_dump" \in called /\ ~import_result) =>
        /\ called \cap {"rebuild_indexes", "cleanup_old_dumps",
                        "clear_progress"} = {}
        /\ pc \notin {"rebuild", "cleanup", "clear"}
        /\ Returned => exitCode = 1
        /\ written # <<>> => progress_file.status = written[Len(written)]
        /\ written = <<>> => progress_file = start.progress_file
        /\ \A f \in start.files : f[1] # latest_date => f \in files
        /\ logs \in {start.logs, TouchLog(start.logs, latest_date_to_import)}

C15_Witness ==
    /\ "Popen" \in called
    /\ ~import_result
    /\ Returned /\ exitCode = 1
    /\ progress_file.status = "failed"
    /\ <<latest_date_to_import, "xml">> \in files

\* C16: a run that has returned after import_dump succeeded has returned 0,
\* has invoked rebuild_indexes, cleanup_old_dumps and clear_progress, and has
\* left no checkpoint, whether rebuild_indexes succeeded or failed.
C16_RebuildNotFatal ==
    (Returned /\ import_result) =>
        /\ exitCode = 0
        /\ rebuild_ok \in {"ok", "failed"}
        /\ {"rebuild_indexes", "cleanup_old_dumps", "clear_progress"}
              \subseteq called
        /\ progress_file = NoProgress

C16_Witness ==
    /\ Returned /\ import_result
    /\ rebuild_ok = "failed"
    /\ exitCode = 0
    /\ progress_file = NoProgress

\* C17: clear_progress is invoked only after import_dump returned success
\* and cleanup_old_dumps was invoked, and a checkpoint that the run started
\* with or wrote is gone only once clear_progress was invoked.
C17_ClearOnlyAfterSuccess ==
    /\ "clear_progress" \in called =>
          /\ import_result
          /\ {"import_dump", "cleanup_old_dumps"} \subseteq called
          /\ files = CleanupOldDumps(files, latest_date_to_import)
    /\ (progress_file = NoProgress
          /\ (start.progress_file # NoProgress \/ written # <<>>)) =>
          "clear_progress" \in called

C17_Witness ==
    /\ "clear_progress" \in called
    /\ start.progress_file.status = "failed"
    /\ progress_file = NoProgress
    /\ Returned

\* C18: once cleanup_old_dumps(keep) is done, every file left is an artifact
\* of keep, every artifact of keep that was there is left, nothing was added,
\* and the logs left are the 5 most recently modified ones, or all of them
\* when there were fewer.
C18_CleanupKeeps ==
    pc = "clear" =>
        /\ \A f \in files : f[1] = latest_date_to_import
        /\ \A f \in start.files : f[1] = latest_date_to_import => f \in files
        /\ files \subseteq start.files
        /\ Len(logs) <= KeepLogs
        /\ \A i \in 1..Len(start.logs) :
              i <= KeepLogs <=> \E j \in 1..Len(logs) : logs[j] = start.logs[i]
        /\ \A j \in 1..Len(logs) : logs[j] = start.logs[j]

C18_Witness ==
    /\ pc = "clear"
    /\ Len(start.logs) = MaxLogs
    /\ Len(logs) = KeepLogs
    /\ start.files = Versions \X AllKinds
    /\ files = {latest_date_to_import} \X AllKinds

\* C19: a rebuild-only run invokes nothing but rebuild_indexes, neither
\* reads nor changes the checkpoint, changes no file, and returns 0 exactly
\* when the service runs and rebuild_indexes succeeds, and 1 otherwise.
C19_RebuildOnlyMode ==
    rebuild_indexes_only =>
        /\ called \subseteq {"rebuild_indexes"}
        /\ written = <<>>
        /\ scaleUpCalls = 0 /\ scaleDownCalls = 0
        /\ gate = "none"
        /\ progress = NoProgress
        /\ pc \in {"run_start", "exited"}
        /\ progress_file = start.progress_file
        /\ files = start.files
        /\ logs = start.logs
        /\ Returned =>
              /\ exitCode = IF docker_running /\ rebuild_ok = "ok" THEN 0 ELSE 1
              /\ docker_running <=> "rebuild_indexes" \in called
              /\ docker_running <=> rebuild_ok # "none"

C19_Witness ==
    /\ rebuild_indexes_only
    /\ Returned /\ exitCode = 0
    /\ start.progress_file.status = "importing"
    /\ start.files # {}

\* C20: a run that is past the discovery of the latest remote version
\* without having found one has returned 1, and it has invoked nothing,
\* written no checkpoint, scaled nothing and changed no file.
C20_DiscoveryFailure ==
    (~rebuild_indexes_only /\ latest_date = None
       /\ pc \notin {"idle", "run_start", "discover"}
       /\ stoppedAt \notin {"main", "run_start", "discover"}) =>
        /\ Returned /\ exitCode = 1
        /\ called = {}
        /\ written = <<>>
        /\ scaleUpCalls = 0 /\ scaleDownCalls = 0
        /\ progress_file = start.progress_file
        /\ files = start.files
        /\ partial \subseteq start.files
        /\ logs = start.logs

C20_Witness ==
    /\ ~rebuild_indexes_only /\ latest_date = None
    /\ Returned /\ exitCode = 1
    /\ start.progress_file.status = "importing"
    /\ start.files # {}

\* C21 (as claimed): the exit status of main() is 0, 1 or 130, and it is 130
\* exactly when an interrupt reached main().
C21_ExitStatus ==
    pc = "exited" =>
        /\ exitCode \in {0, 1, 130}
        /\ exitCode = 130 <=> stoppedAt \in Running

\* C21 (amended): the exit status is 0, 1, 2 or 130; it is 130 exactly when
\* an interrupt reached main() while run() was running, and 2 only when the
\* process ended in main() before run() was called, with nothing invoked
\* and nothing written.
C21_ExitStatusOrUsage ==
    pc = "exited" =>
        /\ exitCode \in {0, 1, 2, 130}
        /\ exitCode = 130 <=> stoppedAt \in Running
        /\ exitCode = 2 =>
              /\ stoppedAt = "main"
              /\ called = {}
              /\ written = <<>>
              /\ disk = <<start.progress_file, start.files, partial,
                          start.logs>>
        /\ stoppedAt = "main" => exitCode \in {0, 1, 2}

C21_Witness ==
    /\ pc = "exited"
    /\ exitCode = 2
    /\ stoppedAt = "main"
    /\ runs = MaxRuns
    /\ start.files # {}

\* the dates of the listing whose probe answered 200
Marked == {d \in latest_dump.dates : latest_dump.probe[d] = "200"}

\* C22: get_latest_dump_date returns the greatest date of the listing whose
\* probe answered 200, whatever the probes of the greater dates gave, and
\* None exactly when the listing failed or no date has a marker; that is the
\* value run() is given.
C22_LatestDumpDate ==
    latest_dump.pc = "returned" =>
        /\ latest_dump.ret =
              IF latest_dump.listing_ok /\ Marked # {}
              THEN Max(Marked) ELSE None
        /\ latest_dump.ret = None <=>
              (~latest_dump.listing_ok \/ Marked = {})
        /\ latest_dump.ret =
              GetLatestDumpDate(latest_dump.listing_ok, latest_dump.dates,
                                Marked)

C22_Witness ==
    /\ latest_dump.pc = "returned"
    /\ latest_dump.ret # None
    /\ \E d \in latest_dump.dates :
          d > latest_dump.ret /\ latest_dump.probe[d] = "error"

\* the steps of the call in progress that were executed and failed
FailedAt == {k \in 1..Len(rebuild_run.executed) : ~rebuild_run.results[k]}

\* C23: the steps executed are the first ones of the list, in its order;
\* a required step that failed is the last one executed and the call has
\* returned False; a call that returned True executed every step, also
\* after an optional step failed; the result is False exactly when a
\* required step failed.
C23_RebuildSteps ==
    rebuild_run.pc # "idle" =>
        /\ Len(rebuild_run.executed) <= Len(Steps)
        /\ \A k \in 1..Len(rebuild_run.executed) :
              rebuild_run.executed[k] = Steps[k]
        /\ \A k \in FailedAt :
              IF Required[k]
              THEN /\ k = Len(rebuild_run.executed)
                   /\ rebuild_run.pc = "returned"
                   /\ ~rebuild_run.ret
              ELSE /\ Steps[k] \in rebuild_run.failed_steps
                   /\ rebuild_run.pc = "returned" =>
                         Len(rebuild_run.executed) > k
        /\ rebuild_run.pc = "returned" =>
              /\ rebuild_run.ret <=> \A k \in FailedAt : ~Required[k]
              /\ rebuild_run.ret => Len(rebuild_run.executed) = Len(Steps)
              /\ rebuild_run.ret = RebuildIndexes(rebuild_run.results)
              /\ rebuild_ok = IF rebuild_run.ret THEN "ok" ELSE "failed"
              /\ rebuild_indexes_only =>
                    exitCode = IF rebuild_run.ret THEN 0 ELSE 1

C23_Witness ==
    /\ rebuild_run.pc = "returned"
    /\ rebuild_run.ret
    /\ rebuild_run.failed_steps = {Steps[1]}
    /\ rebuild_run.executed = Steps

\* scale_up_resources has returned False and import_dump goes on
ScaleUpFailed == scale.op = "up" /\ scale.up_ret = "failed"

\* C24 (as claimed): when scale_up_resources returns False, the two managed
\* files hold what they held when it was called.
C24_FailedScaleUpRestores ==
    ScaleUpFailed =>
        /\ config.compose = scale.at_call.compose
        /\ config.tuning = scale.at_call.tuning

\* scale_down_resources went through its branch without raising
BranchDone ==
    /\ scale.op = "down"
    /\ \/ scale.pc \in {"down_unlink_compose", "down_unlink_tuning",
                        "down_restart"}
       \/ scale.down_ret = "ok"

\* C25: in scale_up_resources a managed file is rewritten only after both
\* files were copied to their .backup, which then hold what the files held
\* at the call; scale_down_resources copies the backups over the files
\* when both exist at its call and writes the normal profile otherwise.
C25_BackupBeforeRewrite ==
    /\ scale.op = "up" =>
          /\ "compose" \in scale.copied =>
                config.compose_backup = scale.at_call.compose
          /\ "tuning" \in scale.copied =>
                config.tuning_backup = scale.at_call.tuning
          /\ scale.rewritten # {} => scale.copied = {"compose", "tuning"}
    /\ scale.op = "down" =>
          (scale.branch = "restore" <=>
              /\ scale.at_call.compose_backup # Absent
              /\ scale.at_call.tuning_backup # Absent)
    /\ BranchDone =>
          IF scale.branch = "restore"
          THEN /\ config.compose = scale.at_call.compose_backup
               /\ config.tuning = scale.at_call.tuning_backup
          ELSE /\ config.compose = Rewrite(scale.at_call.compose, "normal")
               /\ config.tuning = "normal"

C25_Witness ==
    /\ scale.down_ret = "ok"
    /\ scale.branch = "restore"
    /\ scale.up_ret = "ok"
    /\ scale.at_call.tuning = "aggressive"
    /\ config.tuning = "custom"

\* both functions returned True in one process, and no .backup file
\* existed when scale_up_resources was called
RoundTrip ==
    /\ scale.op = "down"
    /\ scale.up_ret = "ok"
    /\ scale.down_ret = "ok"
    /\ scale.orig.compose_backup = Absent
    /\ scale.orig.tuning_backup = Absent

\* C26: after a successful scale_up_resources and a successful
\* scale_down_resources, with no .backup file beforehand, both managed
\* files hold what they held before and no .backup file is left.
C26_RoundTrip == RoundTrip => config = scale.orig

C26_Witness ==
    /\ RoundTrip
    /\ scale.orig.compose = "custom"
    /\ scale.orig.tuning = "custom"
    /\ scale.at_call.compose = "aggressive"
    /\ scale.at_call.tuning = "aggressive"

\* C29 (as claimed): no .backup file ever holds the aggressive profile,
\* and when scale_down_resources has returned True neither managed file
\* holds it.
C29_BackupsNeverAggressive ==
    /\ config.compose_backup # "aggressive"
    /\ config.tuning_backup # "aggressive"
    /\ (scale.op = "down" /\ scale.down_ret = "ok") =>
          /\ config.compose # "aggressive"
          /\ config.tuning # "aggressive"

\* the checkpoints written inside the loop
InLoop == SelectSeq(loop.snapshots, LAMBDA w : w.kind = "loop")

\* C27 (as claimed): two consecutive checkpoints written inside the loop
\* are at least 30 seconds apart, and each carries the count and the rate
\* of the progress line parsed last.
C27_CheckpointInterval ==
    loop.pc # "idle" =>
        /\ \A k \in 1..(Len(InLoop) - 1) :
              /\ InLoop[k + 1].real - InLoop[k].real >= SaveInterval
              /\ InLoop[k + 1].last_update - InLoop[k].last_update
                    >= SaveInterval
        /\ \A k \in 1..Len(InLoop) :
              <<InLoop[k].pages_imported, InLoop[k].current_rate>>
                 = InLoop[k].parsed

\* C28: the counter in memory never decreases from one line to the next,
\* a line that reports no progress leaves it as it is, and every
\* checkpoint carries a pages_imported that is at most the counter at the
\* moment it is written.
C28_CounterMonotone ==
    loop.pc # "idle" =>
        /\ loop.pages_count >= loop.before
        /\ loop.line = "other" => loop.pages_count = loop.before
        /\ loop.line = "progress" => loop.pages_count = loop.reported
        /\ \A k \in 1..Len(loop.snapshots) :
              loop.snapshots[k].pages_imported <= loop.snapshots[k].counter

C28_Witness ==
    /\ loop.pc = "ended"
    /\ loop.line = "other"
    /\ loop.pages_count = MaxPages
    /\ Len(InLoop) >= 2
    /\ InLoop[1].pages_imported < InLoop[2].pages_imported
    /\ loop.snapshots[Len(loop.snapshots)].kind = "completed"

\* the case of C30: local = latest, force unset, no checkpoint loaded for
\* that date
NoCheckpointCase ==
    /\ ~rebuild_indexes_only
    /\ ~force_download
    /\ latest_date # None
    /\ current_date = latest_date
    /\ (progress.status = "none" \/ progress.dump_date # latest_date)

\* C30: in that case run() invokes nothing (no download, no verification,
\* no import), changes neither the artifacts nor the checkpoint, and
\* returns 0 (unless it was stopped before deciding), whether or not the
\* archive on disk is whole and was ever imported.
C30_UpToDateWithoutCheckpoint ==
    NoCheckpointCase =>
        /\ called = {}
        /\ written = <<>>
        /\ scaleUpCalls = 0 /\ scaleDownCalls = 0
        /\ gate = "none"
        /\ disk = <<start.progress_file, start.files, partial, start.logs>>
        /\ pc \in {"decide"} \cup Ended
        /\ Returned => exitCode = 0
        /\ pc \in Ended => stoppedAt \in {"none", "decide"}

C30_Witness ==
    /\ NoCheckpointCase
    /\ Returned
    /\ exitCode = 0
    /\ progress_file.status = "none"
    /\ <<latest_date, "xml">> \in partial

====
